---- MODULE Spec2Model ----
(***************************************************************************)
(* State-machine model of src/app.py: the credential store, the record     *)
(* store (appointments, medical_reports, prescriptions), the upload        *)
(* folder, the per-browser-session state (logged_in, user, cart, history)  *)
(* and the AI gateway wrapper.                                             *)
(*                                                                         *)
(* One action models one script run triggered by one widget event.  The    *)
(* specifications SpecAuth, SpecStore, SpecSession and Spec run whole      *)
(* handlers atomically; SpecConc runs the handlers of the prescriptions    *)
(* tab statement by statement on the module-level cursor c.                *)
(***************************************************************************)
EXTENDS Integers, Sequences, FiniteSets, TLC

\* ------------------------------------------------------------------ bounds
MaxQty == 2           \* largest quantity typed into a Qty box
MaxHistory == 2       \* chat turns explored per session
MaxRows == 2          \* rows explored per record table
MaxFootprint == 1     \* rows + cart entries + chat turns explored by Spec

\* ------------------------------------------------------- program constants
SecPerMinute == 60
ListLimit == 10

\* ----------------------------------------------------------------- inputs
Sessions == {"s1", "s2"}
Usernames == {"alice", "bob"}
Passwords == {"p1", "p2"}
Empty == ""
NoUser == "None"
FileNames == {"r.pdf"}
Bytes == {"b1", "b2"}
Symptoms == {"fever", " "}
Questions == {"q1"}
Hosted == {"ok", "fail"}
Instants == {0, 1, 60, 61}   \* the seconds at which the clock is read

VARIABLES
    users,            \* table users: a set of rows [username, password]
    appointments,     \* table appointments, rows in rowid order
    medical_reports,  \* table medical_reports, rows in rowid order
    prescriptions,    \* table prescriptions, rows in rowid order
    seq,              \* sqlite_sequence: the largest id each table ever held
    vault,            \* the uploads folder: stored name -> bytes
    uploaded,         \* history: report id -> the bytes uploaded with that row
    now,              \* the wall clock, in seconds
    session,          \* st.session_state of each browser session
    cursor,           \* the result set pending on the module-level cursor c
    run,              \* each session's script run: next statement, page rows
    out               \* what the last script run rendered

vars == <<users, appointments, medical_reports, prescriptions, seq, vault,
          uploaded, now, session, cursor, run, out>>

\* ---------------------------------------------------------------- helpers
make_hash(password) == <<"sha256", password>>

\* faulty variant: the stored hash is compared with itself
verify_hash_self(password, hashed) == hashed = hashed

verify_hash(password, hashed) == make_hash(password) = hashed

\* SELECT password FROM users WHERE username=?  (the matching rows)
SelectUser(username) == {r \in users : r.username = username}

\* c.fetchone() on that result: the password column of the one row
FetchPassword(username) == (CHOOSE r \in SelectUser(username) : TRUE).password

Response(s, op, args, msg) ==
    [sess |-> s, op |-> op, args |-> args, msg |-> msg, rows |-> <<>>,
     data |-> "-", calls |-> 0]

NoCart == [m \in {} |-> 0]

Init ==
    /\ users = {}
    /\ appointments = <<>>
    /\ medical_reports = <<>>
    /\ prescriptions = <<>>
    /\ seq = [appointments |-> 0, medical_reports |-> 0, prescriptions |-> 0]
    /\ vault = [f \in {} |-> "-"]
    /\ uploaded = [i \in {} |-> "-"]
    /\ now = 0
    /\ session = [s \in Sessions |->
                    [logged_in |-> FALSE, user |-> NoUser, cart |-> NoCart,
                     history |-> <<>>]]
    /\ cursor = <<>>
    /\ run = [s \in Sessions |-> [pc |-> "idle", pid |-> 0, rows |-> <<>>,
                                  form |-> <<>>]]
    /\ out = Response("-", "start", <<>>, "-")

Idle(s) == run[s].pc = "idle"

\* ------------------------------------------------------------------- auth
\* faulty variant: INSERT OR REPLACE without the existence check
signup_ui_replace(s, username, password, password2) ==
    /\ Idle(s)
    /\ ~session[s].logged_in
    /\ UNCHANGED <<appointments, medical_reports, prescriptions, seq, vault,
                   uploaded, now, session, run>>
    /\ cursor' = <<>>
    /\ IF username = Empty \/ password = Empty
       THEN /\ out' = Response(s, "signup", <<username, password, password2>>,
                               "Please fill all fields.")
            /\ UNCHANGED users
       ELSE IF password # password2
       THEN /\ out' = Response(s, "signup", <<username, password, password2>>,
                               "Passwords do not match.")
            /\ UNCHANGED users
       ELSE /\ users' = (users \ SelectUser(username)) \cup
                   {[username |-> username, password |-> make_hash(password)]}
            /\ out' = Response(s, "signup", <<username, password, password2>>,
                               "Account created! You can now login.")

signup_ui(s, username, password, password2) ==
    /\ Idle(s)
    /\ ~session[s].logged_in
    /\ UNCHANGED <<appointments, medical_reports, prescriptions, seq, vault,
                   uploaded, now, session, run>>
    /\ cursor' = <<>>
    /\ IF username = Empty \/ password = Empty
       THEN /\ out' = Response(s, "signup", <<username, password, password2>>,
                               "Please fill all fields.")
            /\ UNCHANGED users
       ELSE IF password # password2
       THEN /\ out' = Response(s, "signup", <<username, password, password2>>,
                               "Passwords do not match.")
            /\ UNCHANGED users
       ELSE IF SelectUser(username) # {}
       THEN /\ out' = Response(s, "signup", <<username, password, password2>>,
                               "Username already exists.")
            /\ UNCHANGED users
       ELSE /\ users' = users \cup
                   {[username |-> username, password |-> make_hash(password)]}
            /\ out' = Response(s, "signup", <<username, password, password2>>,
                               "Account created! You can now login.")

login_ui(s, username, password) ==
    /\ Idle(s)
    /\ ~session[s].logged_in
    /\ UNCHANGED <<users, appointments, medical_reports, prescriptions, seq,
                   vault, uploaded, now, run>>
    /\ cursor' = <<>>
    /\ IF username = Empty \/ password = Empty
       THEN /\ out' = Response(s, "login", <<username, password>>,
                               "Please fill both fields.")
            /\ UNCHANGED session
       ELSE IF SelectUser(username) # {}
               /\ verify_hash(password, FetchPassword(username))
       THEN /\ session' = [session EXCEPT ![s].logged_in = TRUE,
                                          ![s].user = username]
            /\ out' = Response(s, "login", <<username, password>>, "Welcome")
       ELSE /\ out' = Response(s, "login", <<username, password>>,
                               "Invalid username or password.")
            /\ UNCHANGED session

\* faulty variant: logout forgets to clear the bound username
LogoutKeepsUser(s) ==
    /\ Idle(s)
    /\ session[s].logged_in
    /\ session' = [session EXCEPT ![s].logged_in = FALSE]
    /\ run' = [run EXCEPT ![s] = [pc |-> "idle", pid |-> 0, rows |-> <<>>,
                                  form |-> <<>>]]
    /\ out' = Response(s, "logout", <<>>, "Logged out")
    /\ UNCHANGED <<users, appointments, medical_reports, prescriptions, seq,
                   vault, uploaded, now, cursor>>

\* faulty variant: logout clears the whole session state
LogoutClearsAll(s) ==
    /\ Idle(s)
    /\ session[s].logged_in
    /\ session' = [session EXCEPT ![s] =
                     [logged_in |-> FALSE, user |-> NoUser, cart |-> NoCart,
                      history |-> <<>>]]
    /\ run' = [run EXCEPT ![s] = [pc |-> "idle", pid |-> 0, rows |-> <<>>,
                                  form |-> <<>>]]
    /\ out' = Response(s, "logout", <<>>, "Logged out")
    /\ UNCHANGED <<users, appointments, medical_reports, prescriptions, seq,
                   vault, uploaded, now, cursor>>

Logout(s) ==
    /\ Idle(s)
    /\ session[s].logged_in
    /\ session' = [session EXCEPT ![s].logged_in = FALSE, ![s].user = NoUser]
    /\ run' = [run EXCEPT ![s] = [pc |-> "idle", pid |-> 0, rows |-> <<>>,
                                  form |-> <<>>]]
    /\ out' = Response(s, "logout", <<>>, "Logged out")
    /\ UNCHANGED <<users, appointments, medical_reports, prescriptions, seq,
                   vault, uploaded, now, cursor>>

\* ------------------------------------------------------------------ clock
\* time.time() advances between script runs
Tick(t) ==
    /\ t > now
    /\ now' = t
    /\ UNCHANGED <<users, appointments, medical_reports, prescriptions, seq,
                   vault, uploaded, session, cursor, run, out>>

\* time.strftime("%Y-%m-%d %H:%M"): the clock cut to the minute; the
\* zero-padded text compares as the minute number does
strftime(t) == t \div SecPerMinute

\* int(time.time())
unix_second(t) == t

\* ------------------------------------------------------------ record store
Ids(rows) == {rows[i].id : i \in 1..Len(rows)}

\* WHERE username=? : the matching rows, in rowid order
RECURSIVE WhereUser(_, _)
WhereUser(rows, username) ==
    IF rows = <<>> THEN <<>>
    ELSE IF Head(rows).username = username
         THEN <<Head(rows)>> \o WhereUser(Tail(rows), username)
         ELSE WhereUser(Tail(rows), username)

\* ORDER BY <key> DESC: SQLite's sorter keeps rows with equal keys in the
\* order the scan produced them (ascending rowid)
OrderByDesc(rows, key) ==
    LET n == Len(rows)
        pos(i) == 1 + Cardinality({j \in 1..n : rows[j][key] > rows[i][key]})
                    + Cardinality({j \in 1..n : j < i /\ rows[j][key] = rows[i][key]})
    IN [k \in 1..n |-> rows[CHOOSE i \in 1..n : pos(i) = k]]

\* LIMIT n
Limit(rows, n) == IF Len(rows) <= n THEN rows ELSE SubSeq(rows, 1, n)

\* SELECT ... FROM appointments WHERE username=? ORDER BY created_at DESC LIMIT 10
SelectAppointments(table, username) ==
    Limit(OrderByDesc(WhereUser(table, username), "created_at"), ListLimit)

\* SELECT ... FROM medical_reports WHERE username=? ORDER BY uploaded_at DESC
SelectReports(table, username) ==
    OrderByDesc(WhereUser(table, username), "uploaded_at")

\* SELECT ... FROM prescriptions WHERE username=? ORDER BY created_at DESC
get_user_prescriptions(table, username) ==
    OrderByDesc(WhereUser(table, username), "created_at")

\* INTEGER PRIMARY KEY AUTOINCREMENT: one more than the largest id the table
\* ever held (sqlite_sequence)
TableOf(table) == CASE table = "appointments" -> appointments
                   [] table = "medical_reports" -> medical_reports
                   [] table = "prescriptions" -> prescriptions

\* faulty variant: INTEGER PRIMARY KEY without AUTOINCREMENT, one more than
\* the largest id the table holds now
NextIdOfRows(table) ==
    LET ids == Ids(TableOf(table)) IN
      IF ids = {} THEN 1 ELSE (CHOOSE i \in ids : \A j \in ids : j <= i) + 1

NextId(table) == seq[table] + 1

LoggedIn(s) == Idle(s) /\ session[s].logged_in

\* ------------------------------------------------------------ appointments
BookAppointment(s) ==
    /\ LoggedIn(s)
    /\ appointments' = Append(appointments,
            [id |-> NextId("appointments"), username |-> session[s].user,
             created_at |-> strftime(now)])
    /\ seq' = [seq EXCEPT !.appointments = NextId("appointments")]
    /\ cursor' = <<>>
    /\ out' = [Response(s, "book", <<NextId("appointments")>>,
                        "Appointment confirmed!")
                 EXCEPT !.rows = SelectAppointments(appointments', session[s].user)]
    /\ UNCHANGED <<users, medical_reports, prescriptions, vault, uploaded, now,
                   session, run>>

\* ------------------------------------------------------------- file vault
\* f"{int(time.time())}_{file_uploader_obj.name}"
StoredName(t, name) == <<unix_second(t), name>>

\* open(file_path, "wb"); f.write(file_bytes)
WriteFile(files, name, bytes) ==
    [f \in DOMAIN files \cup {name} |-> IF f = name THEN bytes ELSE files[f]]

save_medical_report(s, picked, name, bytes) ==
    /\ LoggedIn(s)
    /\ IF ~picked
       THEN /\ out' = Response(s, "save_report", <<name>>, "Pick a file first.")
            /\ UNCHANGED <<medical_reports, seq, vault, uploaded, cursor>>
       ELSE /\ vault' = WriteFile(vault, StoredName(now, name), bytes)
            /\ medical_reports' = Append(medical_reports,
                    [id |-> NextId("medical_reports"),
                     username |-> session[s].user,
                     file_name |-> StoredName(now, name),
                     uploaded_at |-> strftime(now)])
            /\ seq' = [seq EXCEPT !.medical_reports = NextId("medical_reports")]
            /\ uploaded' = [i \in DOMAIN uploaded \cup {NextId("medical_reports")} |->
                              IF i \in DOMAIN uploaded THEN uploaded[i] ELSE bytes]
            /\ cursor' = <<>>
            /\ out' = Response(s, "save_report", <<name>>, "Report saved.")
    /\ UNCHANGED <<users, appointments, prescriptions, now, session, run>>

\* the Download button of one row of "Your Reports"
DownloadReport(s, i) ==
    /\ LoggedIn(s)
    /\ LET rows == SelectReports(medical_reports, session[s].user) IN
         /\ i \in 1..Len(rows)
         /\ out' = IF rows[i].file_name \in DOMAIN vault
                   THEN [Response(s, "download", <<rows[i].id>>, "Download file")
                           EXCEPT !.data = vault[rows[i].file_name]]
                   ELSE Response(s, "download", <<rows[i].id>>,
                                 "File not found on server.")
    /\ cursor' = <<>>
    /\ UNCHANGED <<users, appointments, medical_reports, prescriptions, seq,
                   vault, uploaded, now, session, run>>

\* a file of the upload folder is deleted out of band
RemoveFile(f) ==
    /\ f \in DOMAIN vault
    /\ vault' = [g \in DOMAIN vault \ {f} |-> vault[g]]
    /\ UNCHANGED <<users, appointments, medical_reports, prescriptions, seq,
                   uploaded, now, session, cursor, run, out>>

\* -------------------------------------------------------------- AI gateway
\* faulty variant: the except branch re-raises
gemini_medical_answer_raise(user_prompt, hosted) ==
    IF hosted = "ok"
    THEN [text |-> "answer", calls |-> 1, raised |-> FALSE]
    ELSE [text |-> "-", calls |-> 1, raised |-> TRUE]

\* one generate_content call inside try; any Exception becomes the
\* diagnostic string
gemini_medical_answer(user_prompt, hosted) ==
    IF hosted = "ok"
    THEN [text |-> "answer", calls |-> 1, raised |-> FALSE]
    ELSE [text |-> "(Gemini error) I couldn't fetch an AI response",
          calls |-> 1, raised |-> FALSE]

\* ----------------------------------------------------------- prescriptions
\* faulty variant: the text is tested without stripping white space
strip_nothing(text) == text

strip(text) == IF text = " " THEN Empty ELSE text

\* INSERT INTO prescriptions ...; conn.commit()
save_prescription_to_db(table, id, username, symptoms, suggestion) ==
    Append(table, [id |-> id, username |-> username, symptoms |-> symptoms,
                   suggestion |-> suggestion, created_at |-> strftime(now)])

\* faulty variant: DELETE FROM prescriptions WHERE id>=?
delete_prescription_from(table, pid) ==
    SelectSeq(table, LAMBDA r : r.id < pid)

\* DELETE FROM prescriptions WHERE id=?; conn.commit()
delete_prescription(table, pid) ==
    SelectSeq(table, LAMBDA r : r.id # pid)

GenerateSuggestion(s, symptom_input, hosted) ==
    /\ LoggedIn(s)
    /\ IF strip(symptom_input) = Empty
       THEN /\ out' = Response(s, "generate", <<symptom_input, hosted>>,
                    "Please describe symptoms before generating suggestions.")
            /\ UNCHANGED <<prescriptions, seq, cursor>>
       ELSE LET ai == gemini_medical_answer(symptom_input, hosted) IN
            IF ai.raised
            THEN /\ out' = [Response(s, "generate", <<symptom_input, hosted>>, "Traceback")
                              EXCEPT !.calls = ai.calls]
                 /\ UNCHANGED <<prescriptions, seq, cursor>>
            ELSE /\ prescriptions' = save_prescription_to_db(prescriptions,
                        NextId("prescriptions"), session[s].user,
                        symptom_input, ai.text)
                 /\ seq' = [seq EXCEPT !.prescriptions = NextId("prescriptions")]
                 /\ cursor' = <<>>
                 /\ out' = [Response(s, "generate", <<symptom_input, hosted>>,
                                     "Saved suggestion to your prescriptions.")
                              EXCEPT !.data = ai.text, !.calls = ai.calls,
                                     !.rows = get_user_prescriptions(
                                                 prescriptions', session[s].user)]
    /\ UNCHANGED <<users, appointments, medical_reports, vault, uploaded, now,
                   session, run>>

\* the Delete #pid button: the run lists the user's prescriptions again and
\* the button fires only if that listing still renders it
DeletePrescription(s, pid) ==
    /\ LoggedIn(s)
    /\ IF pid \in Ids(get_user_prescriptions(prescriptions, session[s].user))
       THEN prescriptions' = delete_prescription(prescriptions, pid)
       ELSE UNCHANGED prescriptions
    /\ cursor' = <<>>
    /\ out' = [Response(s, "delete", <<pid>>, "-")
                 EXCEPT !.rows = get_user_prescriptions(prescriptions',
                                                        session[s].user)]
    /\ UNCHANGED <<users, appointments, medical_reports, seq, vault, uploaded,
                   now, session, run>>

\* ------------------------------------------------------- chat, cart, tips
AskAI(s, user_text, hosted) ==
    /\ LoggedIn(s)
    /\ user_text # Empty
    /\ LET ai == gemini_medical_answer(user_text, hosted) IN
         IF ai.raised
         THEN /\ out' = [Response(s, "ask", <<user_text, hosted>>, "Traceback")
                           EXCEPT !.calls = ai.calls]
              /\ UNCHANGED session
         ELSE /\ session' = [session EXCEPT ![s].history =
                    Append(@, [q |-> user_text, a |-> ai.text, time |-> now])]
              /\ out' = [Response(s, "ask", <<user_text, hosted>>, ai.text)
                           EXCEPT !.calls = ai.calls]
    /\ UNCHANGED <<users, appointments, medical_reports, prescriptions, seq,
                   vault, uploaded, now, cursor, run>>

ClearHistory(s) ==
    /\ LoggedIn(s)
    /\ session' = [session EXCEPT ![s].history = <<>>]
    /\ out' = Response(s, "clear_history", <<>>, "-")
    /\ UNCHANGED <<users, appointments, medical_reports, prescriptions, seq,
                   vault, uploaded, now, cursor, run>>

GenerateTip(s, hosted) ==
    /\ LoggedIn(s)
    /\ LET ai == gemini_medical_answer("tip", hosted) IN
         out' = [Response(s, "tip", <<hosted>>,
                          IF ai.raised THEN "Traceback" ELSE ai.text)
                   EXCEPT !.calls = ai.calls]
    /\ UNCHANGED <<users, appointments, medical_reports, prescriptions, seq,
                   vault, uploaded, now, session, cursor, run>>

Meds == {"Paracetamol", "Ibuprofen", "Vitamin D3"}

Price(med) == CASE med = "Paracetamol" -> 50
                [] med = "Ibuprofen" -> 80
                [] med = "Vitamin D3" -> 200

\* faulty variant: the entry accumulates instead of being overwritten
CartPutAdd(cart, med, qty) ==
    [m \in DOMAIN cart \cup {med} |->
        IF m # med THEN cart[m]
        ELSE IF med \in DOMAIN cart
        THEN [qty |-> cart[med].qty + qty, total |-> cart[med].total + Price(med) * qty]
        ELSE [qty |-> qty, total |-> Price(med) * qty]]

\* st.session_state.cart[med['name']] = {"qty": qty, "total": price * qty}
CartPut(cart, med, qty) ==
    [m \in DOMAIN cart \cup {med} |->
        IF m = med THEN [qty |-> qty, total |-> Price(med) * qty] ELSE cart[m]]

AddToCart(s, med, qty) ==
    /\ LoggedIn(s)
    /\ IF qty > 0
       THEN /\ session' = [session EXCEPT ![s].cart = CartPut(@, med, qty)]
            /\ out' = Response(s, "add", <<med, qty>>, "Added to cart")
       ELSE /\ UNCHANGED session
            /\ out' = Response(s, "add", <<med, qty>>, "-")
    /\ UNCHANGED <<users, appointments, medical_reports, prescriptions, seq,
                   vault, uploaded, now, cursor, run>>

Checkout(s) ==
    /\ LoggedIn(s)
    /\ DOMAIN session[s].cart # {}
    /\ session' = [session EXCEPT ![s].cart = NoCart]
    /\ out' = Response(s, "checkout", <<>>, "Order placed (demo).")
    /\ UNCHANGED <<users, appointments, medical_reports, prescriptions, seq,
                   vault, uploaded, now, cursor, run>>

\* ------------------------------------------ prescriptions tab, by statement
\* run[s].pc is the statement the script run of session s executes next,
\* run[s].pid the Delete button that started the run (0: none) and
\* run[s].rows the listing the page of session s shows.  cursor is the
\* result set pending on the module-level cursor c.  run[s].form holds the
\* submitted form fields of a signup or login run.

\* the run reaches c.execute("SELECT ... FROM prescriptions WHERE username=?")
ExecuteList(s, pid) ==
    /\ cursor' = get_user_prescriptions(prescriptions, session[s].user)
    /\ run' = [run EXCEPT ![s].pc = "fetch", ![s].pid = pid]
    /\ UNCHANGED <<users, appointments, medical_reports, prescriptions, seq,
                   vault, uploaded, now, session, out>>

\* a widget event of the dashboard starts a run; pid is the Delete button
\* pressed on the page, or 0 for any other event
StartRun(s, pid) ==
    /\ LoggedIn(s)
    /\ pid = 0 \/ pid \in Ids(run[s].rows)
    /\ ExecuteList(s, pid)

\* the run continues to the listing after an INSERT or after a rerun
ContinueRun(s) ==
    /\ run[s].pc = "list"
    /\ ExecuteList(s, 0)

\* return c.fetchall(), then the expanders and buttons are rendered
FetchList(s) ==
    /\ run[s].pc = "fetch"
    /\ cursor' = <<>>
    /\ run' = [run EXCEPT ![s].rows = cursor,
                          ![s].pc = IF run[s].pid \in Ids(cursor)
                                    THEN "delete" ELSE "idle"]
    /\ out' = [Response(s, "prescriptions", <<session[s].user>>, "-")
                 EXCEPT !.rows = cursor]
    /\ UNCHANGED <<users, appointments, medical_reports, prescriptions, seq,
                   vault, uploaded, now, session>>

\* delete_prescription(pid); st.experimental_rerun()
DeleteRow(s) ==
    /\ run[s].pc = "delete"
    /\ prescriptions' = delete_prescription(prescriptions, run[s].pid)
    /\ cursor' = <<>>
    /\ run' = [run EXCEPT ![s].pc = "list", ![s].pid = 0]
    /\ out' = Response(s, "delete_prescription",
                       <<run[s].pid, Len(prescriptions) - Len(prescriptions')>>,
                       "-")
    /\ UNCHANGED <<users, appointments, medical_reports, seq, vault, uploaded,
                   now, session>>

\* Generate Suggestion: the INSERT, then the run goes on to the listing
SaveSuggestion(s, symptom_input, hosted) ==
    /\ LoggedIn(s)
    /\ strip(symptom_input) # Empty
    /\ LET ai == gemini_medical_answer(symptom_input, hosted) IN
         /\ ~ai.raised
         /\ prescriptions' = save_prescription_to_db(prescriptions,
                 NextId("prescriptions"), session[s].user, symptom_input, ai.text)
         /\ out' = [Response(s, "generate", <<symptom_input, hosted>>,
                             "Saved suggestion to your prescriptions.")
                      EXCEPT !.data = ai.text, !.calls = ai.calls]
    /\ seq' = [seq EXCEPT !.prescriptions = NextId("prescriptions")]
    /\ cursor' = <<>>
    /\ run' = [run EXCEPT ![s].pc = "list", ![s].pid = 0]
    /\ UNCHANGED <<users, appointments, medical_reports, vault, uploaded, now,
                   session>>

\* ------------------------------------------- signup and login, by statement
\* the rows of a result set, in the order the cursor yields them
RECURSIVE ResultSet(_)
ResultSet(S) ==
    IF S = {} THEN <<>>
    ELSE LET r == CHOOSE x \in S : TRUE IN <<r>> \o ResultSet(S \ {r})

\* c.fetchone(): the next pending row is taken off the cursor
FetchOne == IF cursor = <<>> THEN cursor ELSE Tail(cursor)

\* faulty variant: a users table declared without PRIMARY KEY
NoPrimaryKey(username) == FALSE

\* username TEXT PRIMARY KEY: the INSERT raises sqlite3.IntegrityError when
\* a row with this username exists
PrimaryKeyConflict(username) == SelectUser(username) # {}

\* the form checks, then c.execute("SELECT username FROM users WHERE ...")
SignupExecute(s, username, password, password2) ==
    /\ Idle(s)
    /\ ~session[s].logged_in
    /\ IF username = Empty \/ password = Empty
       THEN /\ out' = Response(s, "signup", <<username, password, password2>>,
                               "Please fill all fields.")
            /\ UNCHANGED <<cursor, run>>
       ELSE IF password # password2
       THEN /\ out' = Response(s, "signup", <<username, password, password2>>,
                               "Passwords do not match.")
            /\ UNCHANGED <<cursor, run>>
       ELSE /\ cursor' = ResultSet({[username |-> r.username] :
                                       r \in SelectUser(username)})
            /\ run' = [run EXCEPT ![s].pc = "signup_fetch",
                                  ![s].form = <<username, password>>]
            /\ UNCHANGED out
    /\ UNCHANGED <<users, appointments, medical_reports, prescriptions, seq,
                   vault, uploaded, now, session>>

\* if c.fetchone(): "Username already exists."
SignupFetch(s) ==
    /\ run[s].pc = "signup_fetch"
    /\ cursor' = FetchOne
    /\ IF cursor # <<>>
       THEN /\ out' = Response(s, "signup",
                        <<run[s].form[1], run[s].form[2], run[s].form[2]>>,
                        "Username already exists.")
            /\ run' = [run EXCEPT ![s].pc = "idle", ![s].form = <<>>]
       ELSE /\ run' = [run EXCEPT ![s].pc = "signup_insert"]
            /\ UNCHANGED out
    /\ UNCHANGED <<users, appointments, medical_reports, prescriptions, seq,
                   vault, uploaded, now, session>>

\* c.execute("INSERT INTO users ..."); conn.commit(); st.success(...)
\* The IntegrityError of a conflicting INSERT is not caught: the run ends
\* with the traceback, before commit and before the success message.
SignupInsert(s) ==
    /\ run[s].pc = "signup_insert"
    /\ LET username == run[s].form[1]
           password == run[s].form[2]
       IN IF PrimaryKeyConflict(username)
          THEN /\ UNCHANGED users
               /\ out' = Response(s, "signup", <<username, password, password>>,
                                  "Traceback")
          ELSE /\ users' = users \cup {[username |-> username,
                                        password |-> make_hash(password)]}
               /\ out' = Response(s, "signup", <<username, password, password>>,
                                  "Account created! You can now login.")
    /\ cursor' = <<>>
    /\ run' = [run EXCEPT ![s].pc = "idle", ![s].form = <<>>]
    /\ UNCHANGED <<appointments, medical_reports, prescriptions, seq, vault,
                   uploaded, now, session>>

\* the form check, then c.execute("SELECT password FROM users WHERE ...")
LoginExecute(s, username, password) ==
    /\ Idle(s)
    /\ ~session[s].logged_in
    /\ IF username = Empty \/ password = Empty
       THEN /\ out' = Response(s, "login", <<username, password>>,
                               "Please fill both fields.")
            /\ UNCHANGED <<cursor, run>>
       ELSE /\ cursor' = ResultSet({[password |-> r.password] :
                                       r \in SelectUser(username)})
            /\ run' = [run EXCEPT ![s].pc = "login_fetch",
                                  ![s].form = <<username, password>>]
            /\ UNCHANGED out
    /\ UNCHANGED <<users, appointments, medical_reports, prescriptions, seq,
                   vault, uploaded, now, session>>

\* row = c.fetchone(); if row and verify_hash(password, row[0]): ...
\* row[0] of a row that is no password row (a username, an id) is the hash
\* of no password.
LoginFetch(s) ==
    /\ run[s].pc = "login_fetch"
    /\ cursor' = FetchOne
    /\ LET username == run[s].form[1]
           password == run[s].form[2]
       IN IF /\ cursor # <<>>
             /\ "password" \in DOMAIN Head(cursor)
             /\ verify_hash(password, Head(cursor).password)
          THEN /\ session' = [session EXCEPT ![s].logged_in = TRUE,
                                             ![s].user = username]
               /\ out' = Response(s, "login", <<username, password>>, "Welcome")
          ELSE /\ out' = Response(s, "login", <<username, password>>,
                                  "Invalid username or password.")
               /\ UNCHANGED session
    /\ run' = [run EXCEPT ![s].pc = "idle", ![s].form = <<>>]
    /\ UNCHANGED <<users, appointments, medical_reports, prescriptions, seq,
                   vault, uploaded, now>>

\* --------------------------------------------------------- specifications
PwInputs == Passwords \cup {Empty}

MaxSeq == MaxRows + 1

NextAuth ==
    \/ \E s \in Sessions, u \in Usernames \cup {Empty}, p \in PwInputs,
          p2 \in PwInputs : signup_ui(s, u, p, p2)
    \/ \E s \in Sessions, u \in Usernames \cup {Empty}, p \in PwInputs :
          login_ui(s, u, p)
    \/ \E s \in Sessions : Logout(s)

SpecAuth == Init /\ [][NextAuth]_vars

\* accounts are created with one password in the specifications below
Accounts ==
    \/ \E s \in Sessions, u \in Usernames : signup_ui(s, u, "p1", "p1")
    \/ \E s \in Sessions, u \in Usernames : login_ui(s, u, "p1")
    \/ \E s \in Sessions : Logout(s)

Active == {"s1"}

Account1 ==
    \/ \E s \in Active, u \in Usernames : signup_ui(s, u, "p1", "p1")
    \/ \E s \in Active, u \in Usernames : login_ui(s, u, "p1")
    \/ \E s \in Active : Logout(s)

NextStore ==
    \/ Account1
    \/ \E t \in Instants : Tick(t)
    \/ \E s \in Active : Len(appointments) < MaxRows /\ BookAppointment(s)
    \/ \E s \in Active, picked \in BOOLEAN, name \in FileNames, b \in Bytes :
          Len(medical_reports) < MaxRows /\ save_medical_report(s, picked, name, b)
    \/ \E s \in Active, i \in 1..MaxRows : DownloadReport(s, i)
    \/ \E f \in DOMAIN vault : RemoveFile(f)

SpecStore == Init /\ [][NextStore]_vars

NextSession ==
    \/ Account1
    \/ \E s \in Active, q \in Questions, h \in Hosted :
          Len(session[s].history) < MaxHistory /\ AskAI(s, q, h)
    \/ \E s \in Active : ClearHistory(s)
    \/ \E s \in Active, h \in Hosted : GenerateTip(s, h)
    \/ \E s \in Active, m \in Meds, q \in 0..MaxQty : AddToCart(s, m, q)
    \/ \E s \in Active : Checkout(s)

SpecSession == Init /\ [][NextSession]_vars

Footprint ==
    Len(appointments) + Len(medical_reports) + Len(prescriptions)
      + Cardinality(DOMAIN session["s1"].cart) + Len(session["s1"].history)
      + Cardinality(DOMAIN session["s2"].cart) + Len(session["s2"].history)

Room == Footprint < MaxFootprint

Next ==
    \/ Account1
    \/ Tick(SecPerMinute)
    \/ \E s \in Active : Room /\ BookAppointment(s)
    \/ \E s \in Active, picked \in BOOLEAN, name \in FileNames, b \in {"b1"} :
          Room /\ save_medical_report(s, picked, name, b)
    \/ \E s \in Active, i \in 1..MaxRows : DownloadReport(s, i)
    \/ \E f \in DOMAIN vault : RemoveFile(f)
    \/ \E s \in Active, sym \in Symptoms, h \in Hosted :
          Room /\ seq.prescriptions < MaxSeq /\ GenerateSuggestion(s, sym, h)
    \/ \E s \in Active, pid \in 1..MaxSeq : DeletePrescription(s, pid)
    \/ \E s \in Active, q \in Questions, h \in Hosted : Room /\ AskAI(s, q, h)
    \/ \E s \in Active : ClearHistory(s)
    \/ \E s \in Active, h \in Hosted : GenerateTip(s, h)
    \/ \E s \in Active, m \in Meds, q \in 0..MaxQty :
          (Room \/ m \in DOMAIN session[s].cart) /\ AddToCart(s, m, q)
    \/ \E s \in Active : Checkout(s)

Spec == Init /\ [][Next]_vars

\* every insert of the three record tables, and the delete
NextIds ==
    \/ Account1
    \/ \E s \in Active : Len(appointments) < MaxRows /\ BookAppointment(s)
    \/ \E s \in Active, name \in FileNames :
          Len(medical_reports) < MaxRows /\ save_medical_report(s, TRUE, name, "b1")
    \/ \E s \in Active :
          /\ Len(prescriptions) < MaxRows
          /\ seq.prescriptions < MaxSeq
          /\ GenerateSuggestion(s, "fever", "ok")
    \/ \E s \in Active, pid \in 1..MaxSeq : DeletePrescription(s, pid)

SpecIds == Init /\ [][NextIds]_vars

\* signup, login and a writing handler, the first two statement by statement
NextRace ==
    \/ \E s \in Sessions, u \in Usernames, p \in Passwords :
          SignupExecute(s, u, p, p)
    \/ \E s \in Sessions : SignupFetch(s)
    \/ \E s \in Sessions : SignupInsert(s)
    \/ \E s \in Sessions, u \in Usernames, p \in Passwords :
          LoginExecute(s, u, p)
    \/ \E s \in Sessions : LoginFetch(s)
    \/ \E s \in Sessions : Logout(s)
    \/ \E s \in Sessions : Len(appointments) < MaxRows /\ BookAppointment(s)

SpecRace == Init /\ [][NextRace]_vars

NextConc ==
    \/ Accounts
    \/ \E s \in Sessions, pid \in 0..MaxSeq : StartRun(s, pid)
    \/ \E s \in Sessions : ContinueRun(s)
    \/ \E s \in Sessions : FetchList(s)
    \/ \E s \in Sessions : DeleteRow(s)
    \/ \E s \in Sessions :
          seq.prescriptions < MaxRows /\ SaveSuggestion(s, "fever", "ok")

SpecConc == Init /\ [][NextConc]_vars

\* ------------------------------------------------------------ claims C1, C2
Registered(u, p) == [username |-> u, password |-> make_hash(p)] \in users

Anonymous(s) == ~session[s].logged_in /\ session[s].user = NoUser

Authenticated(s) == session[s].logged_in /\ session[s].user \in Usernames

\* C1 as stated: every login with a registered pair binds the session to that
\* user, and every other login (wrong or unknown, any password at all) leaves
\* it Anonymous with the one message "Invalid username or password.".
C1_Original ==
    (out.op = "login" /\ out.args[1] \in Usernames) =>
        IF Registered(out.args[1], out.args[2])
        THEN session[out.sess].logged_in /\ session[out.sess].user = out.args[1]
        ELSE Anonymous(out.sess) /\ out.msg = "Invalid username or password."

\* C1 (amended): a login with a registered pair binds the session to that
\* user; a login with a non-empty password that is wrong, or for a username
\* that is not registered, leaves the session Anonymous with the single
\* message "Invalid username or password."; a login with an empty field
\* leaves it Anonymous with "Please fill both fields." whoever the user is.
C1_LoginUniform ==
    out.op = "login" =>
        IF out.args[1] = Empty \/ out.args[2] = Empty
        THEN Anonymous(out.sess) /\ out.msg = "Please fill both fields."
        ELSE IF Registered(out.args[1], out.args[2])
        THEN /\ session[out.sess].logged_in
             /\ session[out.sess].user = out.args[1]
             /\ out.msg = "Welcome"
        ELSE Anonymous(out.sess) /\ out.msg = "Invalid username or password."

\* a wrong password for a registered user was refused
C1_Witness ==
    /\ out.op = "login"
    /\ out.msg = "Invalid username or password."
    /\ SelectUser(out.args[1]) # {}
    /\ \E s \in Sessions : session[s].logged_in

\* C2 as stated: once u is registered, a signup of (u, p2) with its
\* confirmation answers "Username already exists." whatever p2 is.
C2_Original ==
    (/\ out.op = "signup"
     /\ out.args[1] \in Usernames
     /\ out.args[2] = out.args[3]
     /\ SelectUser(out.args[1]) # {}
     /\ out.msg # "Account created! You can now login.")
        => out.msg = "Username already exists."

\* C2 (amended): a signup for a username that is already registered never
\* changes the users table, and answers "Username already exists." when the
\* password is non-empty and equals its confirmation ("Please fill all
\* fields." for an empty password, "Passwords do not match." otherwise); no
\* step ever updates or deletes a users row.
C2_SignupDuplicate ==
    [][/\ users \subseteq users'
       /\ (out'.op = "signup" /\ SelectUser(out'.args[1]) # {}) =>
            /\ users' = users
            /\ out'.msg = IF out'.args[2] = Empty
                          THEN "Please fill all fields."
                          ELSE IF out'.args[2] # out'.args[3]
                          THEN "Passwords do not match."
                          ELSE "Username already exists."]_vars

\* a second signup of a registered name with another password was refused
C2_Witness ==
    /\ out.op = "signup"
    /\ out.msg = "Username already exists."
    /\ ~Registered(out.args[1], out.args[2])

C4_NewestFirst ==
    out.op = "book" => out.rows[1].id = out.args[1]

\* ------------------------------------------------------------- claim C5
\* C5: a download of a report row either returns exactly the bytes uploaded
\* when that row was created, or reports "File not found on server." and
\* returns no content.
C5_RetrieveStored ==
    out.op = "download" =>
        \/ out.msg = "File not found on server." /\ out.data = "-"
        \/ out.msg = "Download file" /\ out.data = uploaded[out.args[1]]

\* ------------------------------------------------------------- claim C6
CartOf(s) == session[s].cart

\* C6: every cart entry's total is its quantity times the unit price; an add
\* with a positive quantity leaves exactly one entry for that item, holding
\* that quantity (overwrite), and keeps the other entries; an add with
\* quantity 0 changes nothing; checkout empties the cart; nothing else
\* changes a cart.
C6_Cart ==
    /\ [](\A s \in Sessions : \A m \in DOMAIN CartOf(s) :
            /\ m \in Meds
            /\ CartOf(s)[m].qty > 0
            /\ CartOf(s)[m].total = CartOf(s)[m].qty * Price(m))
    /\ [][\A s \in Sessions :
            IF out' # out /\ out'.sess = s /\ out'.op = "add" /\ out'.args[2] > 0
            THEN /\ DOMAIN CartOf(s)' = DOMAIN CartOf(s) \cup {out'.args[1]}
                 /\ CartOf(s)'[out'.args[1]].qty = out'.args[2]
                 /\ \A m \in DOMAIN CartOf(s) \ {out'.args[1]} :
                        CartOf(s)'[m] = CartOf(s)[m]
            ELSE IF out' # out /\ out'.sess = s /\ out'.op = "checkout"
            THEN CartOf(s)' = NoCart
            ELSE CartOf(s)' = CartOf(s)]_vars

\* an add replaced nothing but its own entry: two items are in the cart, the
\* one just added with the largest quantity
C6_Witness ==
    /\ out.op = "add"
    /\ out.args[2] = MaxQty
    /\ Cardinality(DOMAIN CartOf(out.sess)) >= 2
    /\ CartOf(out.sess)[out.args[1]].total = MaxQty * Price(out.args[1])

\* ------------------------------------------------------------- claim C7
AuthOf(s) == <<session[s].logged_in, session[s].user>>

\* C7: every session starts Anonymous and is always either Anonymous or
\* Authenticated; it becomes Authenticated only by its own successful login,
\* bound to the username submitted; it leaves Authenticated only by its own
\* logout, to Anonymous; no other step changes the flag or the username.
C7_Lifecycle ==
    /\ \A s \in Sessions : Anonymous(s)
    /\ [](\A s \in Sessions : Anonymous(s) \/ Authenticated(s))
    /\ [][\A s \in Sessions :
            AuthOf(s)' # AuthOf(s) =>
               \/ /\ Anonymous(s)
                  /\ out'.op = "login" /\ out'.sess = s /\ out'.msg = "Welcome"
                  /\ Registered(out'.args[1], out'.args[2])
                  /\ AuthOf(s)' = <<TRUE, out'.args[1]>>
               \/ /\ Authenticated(s)
                  /\ out'.op = "logout" /\ out'.sess = s
                  /\ AuthOf(s)' = <<FALSE, NoUser>>]_vars

\* a session is Anonymous again after a logout
C7_Witness ==
    /\ out.op = "logout"
    /\ Anonymous(out.sess)
    /\ users # {}

\* ------------------------------------------------------------- claim C8
\* C8: a login or a logout leaves every cart and every chat history as it
\* was; a non-empty cart becomes empty only by that session's Checkout and
\* a non-empty chat history only by that session's Clear History.
C8_LoginLogoutFrame ==
    [][\A s \in Sessions :
         /\ (out' # out /\ out'.op \in {"login", "logout"}) =>
               /\ CartOf(s)' = CartOf(s)
               /\ session[s].history' = session[s].history
         /\ (CartOf(s) # NoCart /\ CartOf(s)' = NoCart) =>
               (out'.op = "checkout" /\ out'.sess = s)
         /\ (session[s].history # <<>> /\ session[s].history' = <<>>) =>
               (out'.op = "clear_history" /\ out'.sess = s)]_vars

\* a user has just logged in to a session that still holds a cart and a
\* chat history from before the login
C8_Witness ==
    /\ out.op = "login"
    /\ out.msg = "Welcome"
    /\ Cardinality(users) = 2
    /\ CartOf(out.sess) # NoCart
    /\ session[out.sess].history # <<>>

\* ------------------------------------------------------------- claim C9
Store == <<users, appointments, medical_reports, prescriptions, seq, vault>>

\* C9: delete_prescription(pid) for a pid that no prescription row has
\* leaves every table with exactly the rows it had and raises nothing; for
\* a pid that a row has, it removes that row and no other.
C9_DeleteMissingNoOp ==
    [][\A s \in Sessions :
         (run[s].pc = "delete" /\ run'[s].pc # "delete") =>
            IF run[s].pid \in Ids(prescriptions)
            THEN /\ Ids(prescriptions') = Ids(prescriptions) \ {run[s].pid}
                 /\ Len(prescriptions') = Len(prescriptions) - 1
            ELSE /\ Store' = Store
                 /\ out'.op = "delete_prescription"
                 /\ out'.msg # "Traceback"]_vars

\* a DELETE ran for an id that no row had: a second session had deleted the
\* row between this run's listing and its DELETE
C9_Witness ==
    /\ out.op = "delete_prescription"
    /\ out.args[2] = 0

\* ------------------------------------------------------------ claim C10
Diagnostic == "(Gemini error) I couldn't fetch an AI response"

\* C10: every handler that calls the AI gateway makes exactly one hosted
\* call, gets a text back also when the hosted call fails (then the
\* diagnostic string), and carries on: Ask AI shows the text and appends it
\* to the chat history, Generate Suggestion saves it as a prescription,
\* Generate Tip shows it.
C10_GatewayNeverRaises ==
    (out.op \in {"ask", "tip", "generate"} /\ out.calls > 0) =>
        /\ out.calls = 1
        /\ out.msg # "Traceback"
        /\ out.op = "ask" =>
             LET h == session[out.sess].history IN
               /\ h # <<>>
               /\ h[Len(h)].q = out.args[1]
               /\ h[Len(h)].a = out.msg
               /\ out.msg = IF out.args[2] = "fail" THEN Diagnostic ELSE "answer"
        /\ out.op = "tip" =>
               out.msg = IF out.args[1] = "fail" THEN Diagnostic ELSE "answer"
        /\ out.op = "generate" =>
             \E i \in 1..Len(prescriptions) :
               /\ prescriptions[i].id = seq.prescriptions
               /\ prescriptions[i].suggestion =
                     IF out.args[2] = "fail" THEN Diagnostic ELSE "answer"

\* the hosted call failed and the diagnostic is the last chat turn
C10_Witness ==
    /\ out.op = "ask"
    /\ out.args[2] = "fail"
    /\ session[out.sess].history # <<>>
    /\ session[out.sess].history[Len(session[out.sess].history)].a = Diagnostic

\* ------------------------------------------------------------ claim C11
Tables == {"appointments", "medical_reports", "prescriptions"}

NewIds(name) == Ids(TableOf(name)') \ Ids(TableOf(name))

\* C11: in every record table the row ids are pairwise distinct and none
\* exceeds the table's sequence; the sequence never decreases; every newly
\* inserted row gets an id greater than the sequence, hence greater than
\* every id the table ever held, deleted rows included.
C11_IdsNeverReused ==
    /\ [](\A name \in Tables :
            /\ Cardinality(Ids(TableOf(name))) = Len(TableOf(name))
            /\ \A i \in Ids(TableOf(name)) : i <= seq[name])
    /\ [][\A name \in Tables :
            /\ seq'[name] >= seq[name]
            /\ \A i \in NewIds(name) :
                  /\ i > seq[name]
                  /\ \A j \in Ids(TableOf(name)) : i > j]_vars

\* a prescription was inserted after an earlier one had been deleted: the
\* table holds one row and its id is 2 or more
C11_Witness ==
    /\ out.op = "generate"
    /\ Len(prescriptions) = 1
    /\ prescriptions[1].id > 1
    /\ prescriptions[1].id = seq.prescriptions

\* ------------------------------------------------------------ claim C13
Blank(text) == text \in {Empty, " "}

Requested == out' # out /\ out'.op = "generate"

\* C13 as stated: a request for a suggestion alone inserts no prescription
\* row (the row would come from a later accept step).
C13_Original == [][Requested => prescriptions' = prescriptions]_vars

\* C13: a prescription row is inserted only by a Generate Suggestion request
\* with non-blank symptoms, which appends one row owned by the requesting
\* user holding the symptoms and the returned text, in the same step; a
\* request with blank symptoms makes no gateway call and inserts nothing.
C13_SavedOnRequest ==
    [][/\ NewIds("prescriptions") # {} =>
            /\ Requested
            /\ ~Blank(out'.args[1])
            /\ out'.calls = 1
            /\ Len(prescriptions') = Len(prescriptions) + 1
            /\ SubSeq(prescriptions', 1, Len(prescriptions)) = prescriptions
            /\ LET row == prescriptions'[Len(prescriptions')] IN
                 /\ row.username = session[out'.sess].user
                 /\ row.symptoms = out'.args[1]
                 /\ row.suggestion = out'.data
       /\ (Requested /\ ~Blank(out'.args[1])) => NewIds("prescriptions") # {}
       /\ (Requested /\ Blank(out'.args[1])) =>
            /\ out'.calls = 0
            /\ prescriptions' = prescriptions]_vars

\* a request for "fever" has just been answered and its row is in the table
C13_Witness ==
    /\ out.op = "generate"
    /\ out.args[1] = "fever"
    /\ out.msg = "Saved suggestion to your prescriptions."
    /\ prescriptions # <<>>
    /\ prescriptions[Len(prescriptions)].suggestion = out.data
    /\ prescriptions[Len(prescriptions)].username = session[out.sess].user

\* ------------------------------------------------------------ claim C12
Created == "Account created! You can now login."

\* C12: the users table never holds two rows for one username; a signup
\* INSERT that finds the username taken raises, reports no success and
\* leaves the table as it was, otherwise it adds the row and reports
\* success; success is reported only by the step that adds the first row
\* for the username; no stored row is ever changed or removed.  Hence of two
\* racing signups of one username at most one reports "Account created".
C12_SignupRace ==
    /\ [](\A u \in Usernames : Cardinality(SelectUser(u)) <= 1)
    /\ [][/\ \A s \in Sessions :
               (run[s].pc = "signup_insert" /\ run'[s].pc # "signup_insert") =>
                  IF SelectUser(run[s].form[1]) # {}
                  THEN /\ users' = users
                       /\ out'.sess = s
                       /\ out'.msg = "Traceback"
                  ELSE /\ users' = users \cup
                            {[username |-> run[s].form[1],
                              password |-> make_hash(run[s].form[2])]}
                       /\ out'.sess = s
                       /\ out'.msg = Created
          /\ (out' # out /\ out'.op = "signup" /\ out'.msg = Created) =>
                /\ SelectUser(out'.args[1]) = {}
                /\ users' # users
          /\ users \subseteq users']_vars

\* the loser of a race: its INSERT has just failed on a username whose row
\* holds the hash of the winner's, different, password
C12_Witness ==
    /\ out.op = "signup"
    /\ out.msg = "Traceback"
    /\ SelectUser(out.args[1]) # {}
    /\ FetchPassword(out.args[1]) # make_hash(out.args[2])

\* ------------------------------------------------------------ claim C14
IsUser(username) == SelectUser(username) # {}

Owners(table) == {table[i].username : i \in 1..Len(table)}

RowsOwned == \A name \in Tables : \A u \in Owners(TableOf(name)) : IsUser(u)

SessionsBound ==
    \A s \in Sessions : session[s].logged_in => IsUser(session[s].user)

Removed(s) ==
    {i \in 1..Len(prescriptions) : prescriptions[i].id = run[s].pid}

====
